---- MODULE Spec2Model ----
(***************************************************************************)
(* A model of the Tipitaka documentation builder (src/python/db/build.py   *)
(* and src/python/db/build_tree.py): the TOC hierarchy resolver, the       *)
(* script conversion pipeline, the hierarchical materializer and the       *)
(* chapter page-range aggregator.                                          *)
(*                                                                         *)
(* Text is modelled as a sequence of one-character strings.  Each part of  *)
(* the builder has its own specification (SpecToc, SpecFiles, SpecChap,    *)
(* SpecConv, SpecCorr, SpecParse, SpecFmt, SpecConc); the variables of     *)
(* the other parts stay at their idle values.                              *)
(***************************************************************************)
EXTENDS Integers, Sequences, FiniteSets, TLC

VARIABLES
    \* build_hierarchical_structure (build_tree.py)
    book_tocs,        \* the TOC entries handed in, in input order
    toc_idx,          \* number of entries the for-loop has consumed
    level_counters,   \* type name -> counter
    current_path,     \* the running path (sequence of path segments)
    structure,        \* the emitted items
    \* create_hierarchical_files (build_tree.py)
    fs_dirs,          \* directories below the book path (sequences of names)
    fs_index,         \* directory -> content of its index.md, where one exists
    hf_structure,     \* the structure being materialized
    hf_script,        \* script_code of the pass
    hf_i,             \* index of the item being processed (1-based)
    hf_j,             \* index of the next path part of that item
    hf_run,           \* number of the pass (1 = first run)
    hf_seeded,        \* directories whose index.md existed before the first run
    hf_error,         \* the exception that aborted the current pass, or NoError
    hf_diag,          \* diagnostics printed by the current pass
    hf_aborts,        \* the exceptions that aborted the earlier passes
    \* create_chapter_files (build.py)
    chapters,         \* chapter dictionaries (name, page)
    book_firstpage,   \* first page of the book in the pages table
    book_lastpage,    \* book.lastpage
    ch_idx,           \* chapters processed so far
    ch_ranges,        \* per chapter: the (start, end) handed to get_chapter_pages
    ch_pages,         \* per chapter: the page numbers fetched
    ch_script,        \* script_code of the pass
    ch_empty_page,    \* the page of the book whose content is empty (0: none)
    ch_files,         \* file below the book path -> content written
    ch_run,           \* number of the current invocation of create_chapter_files
    ch_fails,         \* TRUE when the transliteration engine raises in this invocation
    \* convert_html_content / the name pipeline (build.py)
    cv_input,         \* the text or markup handed in
    cv_script,        \* script_code
    cv_fails,         \* TRUE when transliterate.process raises
    cv_op,            \* "idle", "html" (convert_html_content) or "name"
    cv_result,        \* the value returned
    cv_calls,         \* texts handed to transliterate.process, in order
    \* apply_text_corrections (build.py)
    ac_text,          \* text argument
    ac_corrections,   \* corrections argument
    ac_done,          \* TRUE once the function returned
    ac_result,        \* the value returned
    \* parse_book_chapters (build.py)
    pb_toc,           \* book_toc: its lines, each split on '->' into fields
    pb_idx,           \* lines the for-loop has consumed
    pb_chapters,      \* the chapters list built so far
    pb_raised,        \* TRUE once int(parts[2]) has raised ValueError
    \* format_chapter_content (build.py)
    fc_pages,         \* the page records handed in
    fc_script,        \* script_code
    fc_done,          \* TRUE once the function returned
    fc_result,        \* the tuple returned
    \* two concurrent passes of create_hierarchical_files (build_tree.py)
    cc_pass,          \* per pass: script, book id, loop position, next step
    cc_dirs,          \* directories of the output tree at and below the book paths
    cc_index,         \* directory -> content of its index.md
    cc_wrote          \* directory -> the passes that wrote its index.md

tocVars  == <<book_tocs, toc_idx, level_counters, current_path, structure>>
fileVars == <<fs_dirs, fs_index, hf_structure, hf_script, hf_i, hf_j, hf_run, hf_seeded, hf_error, hf_diag, hf_aborts>>
chapVars == <<chapters, book_firstpage, book_lastpage, ch_idx, ch_ranges, ch_pages,
              ch_script, ch_empty_page, ch_files, ch_run, ch_fails>>
convVars == <<cv_input, cv_script, cv_fails, cv_op, cv_result, cv_calls>>
corrVars == <<ac_text, ac_corrections, ac_done, ac_result>>
parseVars == <<pb_toc, pb_idx, pb_chapters, pb_raised>>
fmtVars == <<fc_pages, fc_script, fc_done, fc_result>>
concVars == <<cc_pass, cc_dirs, cc_index, cc_wrote>>
vars == <<tocVars, fileVars, chapVars, convVars, corrVars, parseVars, fmtVars, concVars>>

\* What each part of the builder leaves alone.
notToc  == <<fileVars, chapVars, convVars, corrVars, parseVars, fmtVars, concVars>>
notFile == <<tocVars, chapVars, convVars, corrVars, parseVars, fmtVars, concVars>>
notChap == <<tocVars, fileVars, convVars, corrVars, parseVars, fmtVars, concVars>>
notConv == <<tocVars, fileVars, chapVars, corrVars, parseVars, fmtVars, concVars>>
notCorr == <<tocVars, fileVars, chapVars, convVars, parseVars, fmtVars, concVars>>
notParse == <<tocVars, fileVars, chapVars, convVars, corrVars, fmtVars, concVars>>
notFmt == <<tocVars, fileVars, chapVars, convVars, corrVars, parseVars, concVars>>
notConc == <<tocVars, fileVars, chapVars, convVars, corrVars, parseVars, fmtVars>>

-----------------------------------------------------------------------------
(* Bounds of the model.                                                    *)

MaxTocLen == 4

\* All sequences over S of length 0..n.
RECURSIVE SeqsUpTo(_, _)
SeqsUpTo(S, n) ==
    IF n = 0 THEN {<<>>}
    ELSE LET shorter == SeqsUpTo(S, n - 1)
         IN  shorter \cup {Append(s, x) : s \in {t \in shorter : Len(t) = n - 1}, x \in S}

-----------------------------------------------------------------------------
(* TOC hierarchy resolver: build_hierarchical_structure.                   *)

type_hierarchy == <<"chapter", "title", "subhead", "subsubhead", "subsubhead-head">>

HierarchyTypes == {type_hierarchy[i] : i \in 1..Len(type_hierarchy)}

\* A type the hierarchy does not know stands for every unrecognized type.
TocTypes == HierarchyTypes \cup {"other"}

\* type_hierarchy.index(toc_type), 0-based as in the code.
TypeIndex(t) == (CHOOSE i \in 1..Len(type_hierarchy) : type_hierarchy[i] = t) - 1

\* Names of TOC entries: short source-script texts.
TocName(k) ==
    IF k % 3 = 1 THEN <<"k">>
    ELSE IF k % 3 = 2 THEN <<"k", "|">>
    ELSE <<".", ".">>

\* The rows get_book_tocs returns for a book, ordered by page_number.
MkTocs(types) ==
    [k \in 1..Len(types) |-> [type |-> types[k], name |-> TocName(k), page_number |-> k]]

TocInputs == {MkTocs(ts) : ts \in SeqsUpTo(TocTypes, MaxTocLen)}

InitCounters == [t \in HierarchyTypes |-> 0]

\* Variant of ResetDeeper that forgets the reset (sensitivity check of the counter rule).
ResetDeeperNone(counters, current_level) == counters

\* Reset counters for deeper levels (range(current_level + 1, len(type_hierarchy))).
ResetDeeper(counters, current_level) ==
    [t \in HierarchyTypes |-> IF TypeIndex(t) >= current_level + 1 THEN 0 ELSE counters[t]]

\* Variant of IncrementCounter that leaves the counter as it is (sensitivity
\* check of the counters of consecutive entries).
IncrementCounterOmitted(counters, toc_type) == counters

\* level_counters[toc_type] += 1
IncrementCounter(counters, toc_type) ==
    [counters EXCEPT ![toc_type] = @ + 1]

\* Variant of TruncatePath that keeps the whole running path (sensitivity check
\* of the levels along a path).
TruncatePathKeepAll(path, current_level) == path

\* current_path[:current_level]
TruncatePath(path, current_level) ==
    SubSeq(path, 1, IF current_level < Len(path) THEN current_level ELSE Len(path))

\* Variant of ProcessToc in which an entry of an unrecognized type still resets
\* the counters below chapter level and the running path (sensitivity check of
\* the skip policy).
ProcessTocResetOnUnknown(st, toc) ==
    IF toc.type \in HierarchyTypes
    THEN LET current_level == TypeIndex(toc.type)
             counters == IncrementCounter(ResetDeeper(st.counters, current_level), toc.type)
             path == Append(TruncatePath(st.path, current_level),
                            [type |-> toc.type, name |-> toc.name, page |-> toc.page_number,
                             counter |-> counters[toc.type], level |-> current_level])
         IN  [counters |-> counters,
              path |-> path,
              structure |-> Append(st.structure,
                                   [toc |-> toc, path |-> path,
                                    counter |-> counters[toc.type]])]
    ELSE [st EXCEPT !.counters = ResetDeeper(st.counters, 0), !.path = <<>>]

\* One iteration of the for-loop over book_tocs, on the loop's local state.
ProcessToc(st, toc) ==
    IF toc.type \in HierarchyTypes
    THEN LET current_level == TypeIndex(toc.type)
             counters == IncrementCounter(ResetDeeper(st.counters, current_level), toc.type)
             path == Append(TruncatePath(st.path, current_level),
                            [type |-> toc.type, name |-> toc.name, page |-> toc.page_number,
                             counter |-> counters[toc.type], level |-> current_level])
         IN  [counters |-> counters,
              path |-> path,
              structure |-> Append(st.structure,
                                   [toc |-> toc, path |-> path,
                                    counter |-> counters[toc.type]])]
    ELSE st

\* build_hierarchical_structure as a function of the whole TOC list.
RECURSIVE BuildState(_, _)
BuildState(tocs, n) ==
    IF n = 0 THEN [counters |-> InitCounters, path |-> <<>>, structure |-> <<>>]
    ELSE ProcessToc(BuildState(tocs, n - 1), tocs[n])

build_hierarchical_structure(tocs) == BuildState(tocs, Len(tocs)).structure

TocIdle ==
    /\ book_tocs = <<>>
    /\ toc_idx = 0
    /\ level_counters = InitCounters
    /\ current_path = <<>>
    /\ structure = <<>>

TocInit ==
    /\ book_tocs \in TocInputs
    /\ toc_idx = 0
    /\ level_counters = InitCounters
    /\ current_path = <<>>
    /\ structure = <<>>

\* The loop body for a TOC entry of a recognized type.
TocRecognized ==
    /\ toc_idx < Len(book_tocs)
    /\ book_tocs[toc_idx + 1].type \in HierarchyTypes
    /\ LET st == ProcessToc([counters |-> level_counters, path |-> current_path,
                             structure |-> structure], book_tocs[toc_idx + 1])
       IN  /\ level_counters' = st.counters
           /\ current_path' = st.path
           /\ structure' = st.structure
    /\ toc_idx' = toc_idx + 1
    /\ UNCHANGED <<book_tocs, notToc>>

\* The loop body for an entry whose type is not in type_hierarchy: the if is not taken.
TocSkipped ==
    /\ toc_idx < Len(book_tocs)
    /\ book_tocs[toc_idx + 1].type \notin HierarchyTypes
    /\ LET st == ProcessToc([counters |-> level_counters, path |-> current_path,
                             structure |-> structure], book_tocs[toc_idx + 1])
       IN  /\ level_counters' = st.counters
           /\ current_path' = st.path
           /\ structure' = st.structure
    /\ toc_idx' = toc_idx + 1
    /\ UNCHANGED <<book_tocs, notToc>>

TocDone == toc_idx = Len(book_tocs)

-----------------------------------------------------------------------------
(* Script conversion pipeline (build.py).                                  *)
(*                                                                         *)
(* Characters: "k" is a source-script letter, "|" the source-script        *)
(* section mark, "." a full stop, " " whitespace, "<" ">" "/" markup.      *)
(* "r" and "t" are the letter in Roman and Thai script, "angkhankhu" is    *)
(* the Thai section mark and "sara_ue" / "sara_i" "nikhahit" Thai vowel    *)
(* signs named by the Thai correction rules.                               *)

MaxHtmlLen == 4
MaxTextLen == 3

\* Script codes modelled, out of self.script_codes.
ScriptCodes == {"mymr", "romn", "thai"}

SourceChars == {"<", ">", "k", "|", ".", " "}

\* self.transliteration_config, the entries of the modelled script codes.
transliteration_config ==
    << [code |-> "romn", from |-> "Burmese", to |-> "IASTPali",
        correction |-> << [from |-> <<".", ".">>, to |-> <<".">>] >>],
       [code |-> "thai", from |-> "Burmese", to |-> "Thai",
        correction |-> << [from |-> <<"sara_ue">>, to |-> <<"sara_i", "nikhahit">>],
                          [from |-> <<"angkhankhu">>, to |-> <<".">>] >>] >>

\* Python's None for a script code without configuration.
NoneConfig == [code |-> "None", from |-> "", to |-> "", correction |-> <<>>]

\* next((config for config in self.transliteration_config if config['code'] == script_code), None)
get_transliteration_config(script_code) ==
    IF \E i \in 1..Len(transliteration_config) : transliteration_config[i].code = script_code
    THEN transliteration_config[CHOOSE i \in 1..Len(transliteration_config) :
            /\ transliteration_config[i].code = script_code
            /\ \A j \in 1..(i - 1) : transliteration_config[j].code # script_code]
    ELSE NoneConfig

\* text.strip() == "" for a non-empty or empty text.
IsBlank(text) == \A i \in 1..Len(text) : text[i] = " "

\* The external engine on one character: letters and the section mark change,
\* markup characters, full stops and whitespace are kept.
TransliterateChar(c, target_script) ==
    IF target_script = "IASTPali"
    THEN (IF c = "k" THEN <<"r">> ELSE IF c = "|" THEN <<".", ".">> ELSE <<c>>)
    ELSE IF target_script = "Thai"
    THEN (IF c = "k" THEN <<"t">> ELSE IF c = "|" THEN <<"angkhankhu">> ELSE <<c>>)
    ELSE <<c>>

\* transliterate.process(original_script, target_script, text) when it returns.
RECURSIVE TransliterateProcess(_, _)
TransliterateProcess(text, target_script) ==
    IF text = <<>> THEN <<>>
    ELSE TransliterateChar(Head(text), target_script)
            \o TransliterateProcess(Tail(text), target_script)

\* convert_text_with_aksharamukha: the value returned and the texts handed to the engine.
convert_text_with_aksharamukha(text, target_script, fails) ==
    IF text = <<>> \/ IsBlank(text)
    THEN [out |-> text, calls |-> <<>>]
    ELSE [out |-> IF fails THEN text ELSE TransliterateProcess(text, target_script),
          calls |-> <<text>>]

\* str.replace(from_text, to_text) for a non-empty from_text, scanning from position p.
RECURSIVE ReplaceFrom(_, _, _, _)
ReplaceFrom(s, p, from_text, to_text) ==
    IF p + Len(from_text) - 1 > Len(s) THEN SubSeq(s, p, Len(s))
    ELSE IF SubSeq(s, p, p + Len(from_text) - 1) = from_text
         THEN to_text \o ReplaceFrom(s, p + Len(from_text), from_text, to_text)
         ELSE <<s[p]>> \o ReplaceFrom(s, p + 1, from_text, to_text)

\* Variant of StrReplace that replaces the first occurrence only, as
\* str.replace(from_text, to_text, 1) (sensitivity check of the correction fold).
StrReplaceFirst(s, from_text, to_text) ==
    IF \E i \in 1..Len(s) : i + Len(from_text) - 1 <= Len(s)
                                /\ SubSeq(s, i, i + Len(from_text) - 1) = from_text
    THEN LET i == CHOOSE n \in 1..Len(s) :
                    /\ n + Len(from_text) - 1 <= Len(s)
                    /\ SubSeq(s, n, n + Len(from_text) - 1) = from_text
                    /\ \A m \in 1..(n - 1) : SubSeq(s, m, m + Len(from_text) - 1) # from_text
         IN  SubSeq(s, 1, i - 1) \o to_text \o SubSeq(s, i + Len(from_text), Len(s))
    ELSE s

StrReplace(s, from_text, to_text) == ReplaceFrom(s, 1, from_text, to_text)

\* The for-loop of apply_text_corrections from rule k on.
RECURSIVE CorrectionLoop(_, _, _)
CorrectionLoop(corrected_text, corrections, k) ==
    IF k > Len(corrections) THEN corrected_text
    ELSE CorrectionLoop(
            IF corrections[k].from # <<>>
            THEN StrReplace(corrected_text, corrections[k].from, corrections[k].to)
            ELSE corrected_text,
            corrections, k + 1)

apply_text_corrections(text, corrections) ==
    IF text = <<>> \/ corrections = <<>> THEN text
    ELSE CorrectionLoop(text, corrections, 1)

\* End (exclusive) of the greedy [^<]+ run starting at p; p itself when the run is empty.
RECURSIVE RunEnd(_, _)
RunEnd(s, p) ==
    IF p > Len(s) \/ s[p] = "<" THEN p ELSE RunEnd(s, p + 1)

\* Variant of LookBehindGt for a pattern whose alternatives lack the lookbehind
\* (sensitivity check of the preservation of tags).
LookBehindOmitted(s, p) == TRUE

\* (?<=>) at position p.
LookBehindGt(s, p) == p > 1 /\ s[p - 1] = ">"

\* Variant of AltBetween for a pattern without its first alternative
\* (sensitivity check of the conversion of text between tags).
AltBetweenOmitted(s, p) == 0

\* (?<=>)[^<]+(?=<) at p: the end of the match (exclusive), 0 for no match.
AltBetween(s, p) ==
    LET r == RunEnd(s, p)
    IN  IF LookBehindGt(s, p) /\ r > p /\ r <= Len(s) THEN r ELSE 0

\* (?<=>)[^<]+$ at p.  (The alphabet has no newline, so $ is the end of the string.)
AltTrailing(s, p) ==
    LET r == RunEnd(s, p)
    IN  IF LookBehindGt(s, p) /\ r > p /\ r = Len(s) + 1 THEN r ELSE 0

\* Variant of AltLeading for a third alternative without its lookahead, ^[^<]+
\* (sensitivity check of the treatment of text without markup).
AltLeadingNoLookahead(s, p) ==
    LET r == RunEnd(s, p)
    IN  IF p = 1 /\ r > p THEN r ELSE 0

\* ^[^<]+(?=<) at p.
AltLeading(s, p) ==
    LET r == RunEnd(s, p)
    IN  IF p = 1 /\ r > p /\ r <= Len(s) THEN r ELSE 0

\* The pattern at p: the alternatives in order.
PatternMatch(s, p) ==
    IF AltBetween(s, p) # 0 THEN AltBetween(s, p)
    ELSE IF AltTrailing(s, p) # 0 THEN AltTrailing(s, p)
    ELSE AltLeading(s, p)

\* convert_text_match(match) on the matched text.
convert_text_match(text_content, trans_config, fails) ==
    IF IsBlank(text_content)
    THEN [out |-> text_content, calls |-> <<>>]
    ELSE LET c == convert_text_with_aksharamukha(text_content, trans_config.to, fails)
         IN  [out |-> apply_text_corrections(c.out, trans_config.correction),
              calls |-> c.calls]

\* re.sub(pattern, convert_text_match, html_content) from position p on.
RECURSIVE ReSub(_, _, _, _)
ReSub(s, p, trans_config, fails) ==
    IF p > Len(s) THEN [out |-> <<>>, calls |-> <<>>]
    ELSE LET e == PatternMatch(s, p)
         IN  IF e = 0
             THEN LET rest == ReSub(s, p + 1, trans_config, fails)
                  IN  [out |-> <<s[p]>> \o rest.out, calls |-> rest.calls]
             ELSE LET m == convert_text_match(SubSeq(s, p, e - 1), trans_config, fails)
                      rest == ReSub(s, e, trans_config, fails)
                  IN  [out |-> m.out \o rest.out, calls |-> m.calls \o rest.calls]

\* Variant of convert_html_content without the early returns, the configuration
\* lookup falling back to the first entry (sensitivity check of the identity cases).
convert_html_content_no_return(html_content, script_code, fails) ==
    ReSub(html_content, 1,
          IF get_transliteration_config(script_code).code = "None"
          THEN transliteration_config[1]
          ELSE get_transliteration_config(script_code),
          fails)

\* convert_html_content.  The engine's failure is caught inside
\* convert_text_with_aksharamukha, so the except branch around re.sub is not taken.
convert_html_content(html_content, script_code, fails) ==
    IF html_content = <<>> \/ script_code = "mymr"
    THEN [out |-> html_content, calls |-> <<>>]
    ELSE LET trans_config == get_transliteration_config(script_code)
         IN  IF trans_config.code = "None"
             THEN [out |-> html_content, calls |-> <<>>]
             ELSE ReSub(html_content, 1, trans_config, fails)

\* The conversion of a name (book name, abbreviation, chapter or TOC entry name):
\* convert_text_with_aksharamukha followed by apply_text_corrections.
ConvertName(name, script_code, fails) ==
    IF script_code = "mymr" THEN [out |-> name, calls |-> <<>>]
    ELSE LET trans_config == get_transliteration_config(script_code)
         IN  IF trans_config.code = "None"
             THEN [out |-> name, calls |-> <<>>]
             ELSE LET c == convert_text_with_aksharamukha(name, trans_config.to, fails)
                  IN  [out |-> apply_text_corrections(c.out, trans_config.correction),
                       calls |-> c.calls]

OpenA == <<"<", "a", ">">>
CloseA == <<"<", "/", "a", ">">>

\* Markup handed to convert_html_content: every short string over the source
\* characters, and <a>TEXT</a> for every short TEXT without "<".
HtmlInputs ==
    SeqsUpTo(SourceChars, MaxHtmlLen)
        \cup {OpenA \o t \o CloseA : t \in SeqsUpTo(SourceChars \ {"<"}, MaxTextLen)}

ConvIdle ==
    /\ cv_input = <<>>
    /\ cv_script = "mymr"
    /\ cv_fails = FALSE
    /\ cv_op = "idle"
    /\ cv_result = <<>>
    /\ cv_calls = <<>>

ConvInit ==
    /\ cv_input \in HtmlInputs
    /\ cv_script \in ScriptCodes
    /\ cv_fails \in BOOLEAN
    /\ cv_op = "idle"
    /\ cv_result = <<>>
    /\ cv_calls = <<>>

\* A call of convert_html_content(cv_input, cv_script).
CvConvertHtml ==
    /\ cv_op = "idle"
    /\ LET r == convert_html_content(cv_input, cv_script, cv_fails)
       IN  /\ cv_result' = r.out
           /\ cv_calls' = r.calls
    /\ cv_op' = "html"
    /\ UNCHANGED <<cv_input, cv_script, cv_fails, notConv>>

\* The name pipeline on cv_input under cv_script.
CvConvertName ==
    /\ cv_op = "idle"
    /\ LET r == ConvertName(cv_input, cv_script, cv_fails)
       IN  /\ cv_result' = r.out
           /\ cv_calls' = r.calls
    /\ cv_op' = "name"
    /\ UNCHANGED <<cv_input, cv_script, cv_fails, notConv>>

-----------------------------------------------------------------------------
(* apply_text_corrections on its own.                                      *)

MaxCorrLen == 4

\* Characters of converted text.
TargetChars == {".", "r", "sara_ue", "angkhankhu"}

\* The configured correction lists, and two lists (not configured) whose rules
\* feed one another, so that the order of the rules shows in the result.
CorrectionLists ==
    {transliteration_config[i].correction : i \in 1..Len(transliteration_config)}
        \cup { <<>>,
               << [from |-> <<".", ".">>, to |-> <<".">>], [from |-> <<".">>, to |-> <<"r", ".">>] >>,
               << [from |-> <<".">>, to |-> <<"r", ".">>], [from |-> <<".", ".">>, to |-> <<".">>] >>,
               << [from |-> <<"r">>, to |-> <<".", ".">>], [from |-> <<".", ".">>, to |-> <<"r">>] >> }

CorrIdle ==
    /\ ac_text = <<>>
    /\ ac_corrections = <<>>
    /\ ac_done = FALSE
    /\ ac_result = <<>>

CorrInit ==
    /\ ac_text \in SeqsUpTo(TargetChars, MaxCorrLen)
    /\ ac_corrections \in CorrectionLists
    /\ ac_done = FALSE
    /\ ac_result = <<>>

\* A call of apply_text_corrections(ac_text, ac_corrections).
AcApply ==
    /\ ~ac_done
    /\ ac_result' = apply_text_corrections(ac_text, ac_corrections)
    /\ ac_done' = TRUE
    /\ UNCHANGED <<ac_text, ac_corrections, notCorr>>

-----------------------------------------------------------------------------
(* Page-range aggregator and chapter materializer: create_chapter_files,   *)
(* get_chapter_pages (build.py).                                           *)

MaxPage == 4
MaxChapters == 2
MaxChapRuns == 2

\* The chapter dictionaries parse_book_chapters yields for the given pages.
MkChapters(ps) == [k \in 1..Len(ps) |-> [name |-> <<"k">>, page |-> ps[k]]]

\* The elements of a finite set of integers in ascending order (orderby page).
RECURSIVE Ascending(_)
Ascending(S) ==
    IF S = {} THEN <<>>
    ELSE LET m == CHOOSE x \in S : \A y \in S : x <= y
         IN  <<m>> \o Ascending(S \ {m})

\* The page numbers of the book in the pages table.
BookPages == book_firstpage..book_lastpage

\* The record of page p in the pages table.
PageRecord(p) ==
    [page |-> p,
     content |-> IF p = ch_empty_page THEN <<>> ELSE OpenA \o <<"k", "|">> \o CloseA,
     paranum |-> p]

\* get_chapter_pages(book_id, start_page, end_page), end_page given: the page
\* numbers of the records selected.
get_chapter_pages(start_page, end_page) ==
    Ascending({p \in BookPages : p >= start_page /\ p < end_page})

\* Variant of ChapterEndPage that runs every chapter to the end of the book
\* (sensitivity check of the chapter ranges).
ChapterEndPageToBookEnd(index) == book_lastpage + 1

\* The end page create_chapter_files computes for chapter index (1-based, as enumerate).
ChapterEndPage(index) ==
    IF index < Len(chapters) THEN chapters[index + 1].page ELSE book_lastpage + 1

\* The chapter's index.md as written.
ChapterIndexContent(index, start_page, end_page, pages) ==
    [title |-> chapters[index].name,
     order |-> index,
     page |-> IF start_page # end_page - 1 THEN <<start_page, end_page - 1>> ELSE <<start_page>>,
     n_pages |-> Len(pages)]

\* The page files written for the chapter: one per fetched page with content.
ChapterPageFiles(index, pages) ==
    [f \in {<<index, "page", pages[k]>> : k \in {n \in 1..Len(pages) : PageRecord(pages[n]).content # <<>>}}
        |-> LET page_index == CHOOSE n \in 1..Len(pages) : pages[n] = f[3]
            IN  [chapter_name |-> chapters[index].name,
                 page_num |-> f[3],
                 order |-> page_index,
                 paranum |-> PageRecord(f[3]).paranum,
                 content |-> convert_html_content(PageRecord(f[3]).content, ch_script, ch_fails).out]]

\* open(path, 'w') and write, for every file of the function written.
WriteFiles(files, written) ==
    [f \in DOMAIN files \cup DOMAIN written |->
        IF f \in DOMAIN written THEN written[f] ELSE files[f]]

ChapIdle ==
    /\ chapters = <<>>
    /\ book_firstpage = 1
    /\ book_lastpage = 1
    /\ ch_idx = 0
    /\ ch_ranges = <<>>
    /\ ch_pages = <<>>
    /\ ch_script = "mymr"
    /\ ch_empty_page = 0
    /\ ch_files = <<>>
    /\ ch_run = 1
    /\ ch_fails = FALSE

ChapInit ==
    /\ \/ /\ chapters \in {MkChapters(ps) : ps \in SeqsUpTo(1..MaxPage, MaxChapters)}
          /\ book_firstpage \in 1..MaxPage
          /\ book_lastpage \in book_firstpage..MaxPage
       \/ /\ chapters = MkChapters(<<1, 50, 120>>)
          /\ book_firstpage = 1
          /\ book_lastpage = 200
    /\ ch_empty_page \in {0} \cup (book_firstpage..book_lastpage)
    /\ ch_empty_page <= MaxPage
    /\ ch_script \in {"mymr", "romn"}
    /\ ch_idx = 0
    /\ ch_ranges = <<>>
    /\ ch_pages = <<>>
    /\ ch_files = <<>>
    /\ ch_run = 1
    /\ ch_fails \in BOOLEAN

\* One iteration of the for-loop of create_chapter_files.
ChProcessChapter ==
    /\ ch_idx < Len(chapters)
    /\ LET index == ch_idx + 1
           start_page == chapters[index].page
           end_page == ChapterEndPage(index)
           pages == get_chapter_pages(start_page, end_page)
       IN  /\ ch_ranges' = Append(ch_ranges, <<start_page, end_page>>)
           /\ ch_pages' = Append(ch_pages, pages)
           /\ ch_files' = WriteFiles(
                   WriteFiles(ch_files,
                              [f \in {<<index, "index">>} |->
                                  ChapterIndexContent(index, start_page, end_page, pages)]),
                   ChapterPageFiles(index, pages))
    /\ ch_idx' = ch_idx + 1
    /\ UNCHANGED <<chapters, book_firstpage, book_lastpage, ch_script, ch_empty_page,
                   ch_run, ch_fails, notChap>>

ChapDone == ch_idx = Len(chapters)

\* create_chapter_files is invoked again for the same book path, chapters and
\* script over the files the earlier invocation left; the transliteration
\* engine may raise in one invocation and not in the other.
ChRunAgain ==
    /\ ChapDone
    /\ ch_run < MaxChapRuns
    /\ ch_run' = ch_run + 1
    /\ ch_fails' \in BOOLEAN
    /\ ch_idx' = 0
    /\ ch_ranges' = <<>>
    /\ ch_pages' = <<>>
    /\ UNCHANGED <<chapters, book_firstpage, book_lastpage, ch_script, ch_empty_page,
                   ch_files, notChap>>

-----------------------------------------------------------------------------
(* Hierarchical materializer: create_hierarchical_files (build_tree.py).   *)
(* A directory below the book path is the sequence of its path names; the  *)
(* name str(counter) is modelled by the counter.                           *)

MaxFileTocLen == 3
MaxRuns == 2

\* The converted book abbreviation handed in as book_abbr.
BookAbbr == <<"book_abbr">>

\* Content of an index.md that existed before the first pass.
SeedContent == [name |-> <<"seed">>, order |-> 0, parent |-> <<>>, page |-> 0]

\* Directories that may hold a pre-existing index.md, at most one per run.
SeedChoices == {{}, {<<1>>}, {<<1, 1>>}, {<<2>>}}

\* All prefixes of a directory, the book path (<<>>) included.
Prefixes(dir) == {SubSeq(dir, 1, n) : n \in 0..Len(dir)}

\* current_dir after path parts 1..j.
PartDir(path_parts, j) == [n \in 1..j |-> path_parts[n].counter]

\* The converted name of a path part.
ConvertedName(path_part, script_code) == ConvertName(path_part.name, script_code, FALSE).out

\* parent_names when path part j is reached.
ParentNames(path_parts, j, script_code) ==
    [n \in 1..(j - 1) |-> ConvertedName(path_parts[n], script_code)]

\* Variant of IndexFileExists that never sees the file (sensitivity check of
\* the first-writer-wins rule).
IndexFileExistsNever(index, dir) == FALSE

\* index_file.exists()
IndexFileExists(index, dir) == dir \in DOMAIN index

\* An index.md of length zero: opened for writing, nothing written.
EmptyDocument == [name |-> <<>>, order |-> 0, parent |-> <<>>, page |-> 0]

\* No exception is pending.
NoError == [kind |-> "none", dir |-> <<>>]

\* self.content_template.format(...) for path part j.
IndexContent(path_parts, j, script_code) ==
    [name |-> ConvertedName(path_parts[j], script_code),
     order |-> path_parts[j].counter,
     parent |-> IF j = 1 THEN <<BookAbbr>> ELSE ParentNames(path_parts, j, script_code),
     page |-> path_parts[j].page]

\* The loop body for path part j on a file tree in which nothing fails.
RECURSIVE MaterializeParts(_, _, _, _)
MaterializeParts(index, path_parts, j, script_code) ==
    IF j = 0 THEN index
    ELSE LET before == MaterializeParts(index, path_parts, j - 1, script_code)
             dir == PartDir(path_parts, j)
         IN  IF IndexFileExists(before, dir) THEN before
             ELSE [d \in DOMAIN before \cup {dir} |->
                      IF d = dir THEN IndexContent(path_parts, j, script_code) ELSE before[d]]

RECURSIVE MaterializeItems(_, _, _, _)
MaterializeItems(index, structure_, i, script_code) ==
    IF i = 0 THEN index
    ELSE MaterializeParts(MaterializeItems(index, structure_, i - 1, script_code),
                          structure_[i].path, Len(structure_[i].path), script_code)

\* The index documents after create_hierarchical_files ran without a failure
\* over a tree that held the documents of index.
create_hierarchical_files(index, structure_, script_code) ==
    MaterializeItems(index, structure_, Len(structure_), script_code)

FileIdle ==
    /\ fs_dirs = {<<>>}
    /\ fs_index = <<>>
    /\ hf_structure = <<>>
    /\ hf_script = "mymr"
    /\ hf_i = 1
    /\ hf_j = 1
    /\ hf_run = 1
    /\ hf_seeded = {}
    /\ hf_error = NoError
    /\ hf_diag = <<>>
    /\ hf_aborts = <<>>

FileInit ==
    /\ hf_structure \in {build_hierarchical_structure(MkTocs(ts)) : ts \in SeqsUpTo(TocTypes, MaxFileTocLen)}
    /\ hf_script \in {"mymr", "romn"}
    /\ hf_seeded \in SeedChoices
    /\ fs_dirs = UNION {Prefixes(d) : d \in hf_seeded} \cup {<<>>}
    /\ fs_index = [d \in hf_seeded |-> SeedContent]
    /\ hf_i = 1
    /\ hf_j = 1
    /\ hf_run = 1
    /\ hf_error = NoError
    /\ hf_diag = <<>>
    /\ hf_aborts = <<>>

\* The loop position after path part hf_j of item hf_i.
HfAdvance ==
    IF hf_j < Len(hf_structure[hf_i].path)
    THEN /\ hf_i' = hf_i
         /\ hf_j' = hf_j + 1
    ELSE /\ hf_i' = hf_i + 1
         /\ hf_j' = 1

\* One path part whose directory has no index.md: mkdir, then the file is written.
HfCreateIndex ==
    /\ hf_error = NoError
    /\ hf_i <= Len(hf_structure)
    /\ LET path_parts == hf_structure[hf_i].path
           dir == PartDir(path_parts, hf_j)
       IN  /\ ~IndexFileExists(fs_index, dir)
           /\ fs_dirs' = fs_dirs \cup Prefixes(dir)
           /\ fs_index' = [d \in DOMAIN fs_index \cup {dir} |->
                              IF d = dir THEN IndexContent(path_parts, hf_j, hf_script)
                              ELSE fs_index[d]]
    /\ HfAdvance
    /\ UNCHANGED <<hf_structure, hf_script, hf_run, hf_seeded, hf_error, hf_diag, hf_aborts, notFile>>

\* One path part whose directory already holds an index.md: mkdir only.
HfKeepIndex ==
    /\ hf_error = NoError
    /\ hf_i <= Len(hf_structure)
    /\ LET path_parts == hf_structure[hf_i].path
           dir == PartDir(path_parts, hf_j)
       IN  /\ IndexFileExists(fs_index, dir)
           /\ fs_dirs' = fs_dirs \cup Prefixes(dir)
    /\ HfAdvance
    /\ UNCHANGED <<fs_index, hf_structure, hf_script, hf_run, hf_seeded, hf_error, hf_diag, hf_aborts, notFile>>

\* current_dir.mkdir raises for a directory that does not exist yet: the
\* exception leaves create_hierarchical_files at once, nothing is printed.
HfMkdirFails ==
    /\ hf_error = NoError
    /\ hf_i <= Len(hf_structure)
    /\ LET dir == PartDir(hf_structure[hf_i].path, hf_j)
       IN  /\ dir \notin fs_dirs
           /\ hf_error' = [kind |-> "mkdir", dir |-> dir]
    /\ UNCHANGED <<fs_dirs, fs_index, hf_structure, hf_script, hf_i, hf_j, hf_run, hf_seeded,
                   hf_diag, hf_aborts, notFile>>

\* open(index_file, 'w') raises: the directory is there, no file is created; the
\* except clause prints the file, whether the directory exists and the
\* directory, then re-raises.
HfOpenFails ==
    /\ hf_error = NoError
    /\ hf_i <= Len(hf_structure)
    /\ LET dir == PartDir(hf_structure[hf_i].path, hf_j)
       IN  /\ ~IndexFileExists(fs_index, dir)
           /\ fs_dirs' = fs_dirs \cup Prefixes(dir)
           /\ hf_error' = [kind |-> "open", dir |-> dir]
           /\ hf_diag' = Append(hf_diag, [target |-> dir, dir_exists |-> TRUE])
    /\ UNCHANGED <<fs_index, hf_structure, hf_script, hf_i, hf_j, hf_run, hf_seeded, hf_aborts, notFile>>

\* f.write raises after open(index_file, 'w') created the file: the file stays,
\* with length zero; the except clause prints its diagnostics and re-raises.
HfWriteFails ==
    /\ hf_error = NoError
    /\ hf_i <= Len(hf_structure)
    /\ LET dir == PartDir(hf_structure[hf_i].path, hf_j)
       IN  /\ ~IndexFileExists(fs_index, dir)
           /\ fs_dirs' = fs_dirs \cup Prefixes(dir)
           /\ fs_index' = [d \in DOMAIN fs_index \cup {dir} |->
                              IF d = dir THEN EmptyDocument ELSE fs_index[d]]
           /\ hf_error' = [kind |-> "write", dir |-> dir]
           /\ hf_diag' = Append(hf_diag, [target |-> dir, dir_exists |-> TRUE])
    /\ UNCHANGED <<hf_structure, hf_script, hf_i, hf_j, hf_run, hf_seeded, hf_aborts, notFile>>

\* create_hierarchical_files is invoked again with the same structure.
HfRunAgain ==
    /\ hf_error = NoError
    /\ hf_i > Len(hf_structure)
    /\ hf_run < MaxRuns
    /\ hf_run' = hf_run + 1
    /\ hf_i' = 1
    /\ hf_j' = 1
    /\ hf_diag' = <<>>
    /\ UNCHANGED <<fs_dirs, fs_index, hf_structure, hf_script, hf_seeded, hf_error, hf_aborts, notFile>>

\* create_hierarchical_files is invoked again after a pass that was aborted by
\* an exception, over the tree that pass left behind.
HfRetry ==
    /\ hf_error # NoError
    /\ hf_run < MaxRuns
    /\ hf_run' = hf_run + 1
    /\ hf_i' = 1
    /\ hf_j' = 1
    /\ hf_error' = NoError
    /\ hf_diag' = <<>>
    /\ hf_aborts' = Append(hf_aborts, hf_error)
    /\ UNCHANGED <<fs_dirs, fs_index, hf_structure, hf_script, hf_seeded, notFile>>

HfDone == hf_error = NoError /\ hf_i > Len(hf_structure)

-----------------------------------------------------------------------------
(* Inline TOC parser: parse_book_chapters (build.py).                      *)
(* A line of book_toc is modelled, after strip(), by the fields that       *)
(* split('->') yields; a field is a sequence of characters.  The stripped  *)
(* line starts with 'chapter->' exactly when it has at least two fields    *)
(* and the first is 'chapter'.                                             *)

MaxTocLines == 2

\* len(parts) >= 3
MinChapterParts == 3

ChapterWord == <<"c", "h", "a", "p", "t", "e", "r">>

Digits == <<"0", "1", "2", "3", "4", "5", "6", "7", "8", "9">>

IsDigit(c) == \E d \in 1..Len(Digits) : Digits[d] = c

\* int(field) succeeds: a non-empty run of decimal digits.
IsIntLiteral(field) == field # <<>> /\ \A n \in 1..Len(field) : IsDigit(field[n])

\* int(field) for a field made of decimal digits.
RECURSIVE IntOf(_)
IntOf(field) ==
    IF field = <<>> THEN 0
    ELSE 10 * IntOf(SubSeq(field, 1, Len(field) - 1))
            + (CHOOSE d \in 1..Len(Digits) : Digits[d] = field[Len(field)]) - 1

\* The lines of the model: nothing, one or two fields, or three and four fields
\* whose third is a number, a word, a number followed by a letter, or empty.
TocLines ==
    {<<>>}
        \cup {<<w>> : w \in {ChapterWord, <<"x">>}}
        \cup {<<w, <<"k">> >> : w \in {ChapterWord, <<"x">>}}
        \cup {<<w, <<"k">>, f>> : w \in {ChapterWord, <<"x">>},
                                   f \in {<<"7">>, <<"1", "2">>, <<"x">>, <<"7", "x">>, <<>>}}
        \cup {<<w, <<"k">>, f, <<"x">> >> : w \in {ChapterWord, <<"x">>},
                                   f \in {<<"7">>, <<"1", "2">>, <<"x">>, <<"7", "x">>, <<>>}}

\* line.strip().startswith('chapter->')
StartsWithChapter(parts) == Len(parts) >= 2 /\ parts[1] = ChapterWord

ParseIdle ==
    /\ pb_toc = <<>>
    /\ pb_idx = 0
    /\ pb_chapters = <<>>
    /\ pb_raised = FALSE

ParseInit ==
    /\ pb_toc \in SeqsUpTo(TocLines, MaxTocLines)
    /\ pb_idx = 0
    /\ pb_chapters = <<>>
    /\ pb_raised = FALSE

\* A line that passes both ifs and whose third field int() accepts: appended.
PbAppendChapter ==
    /\ ~pb_raised
    /\ pb_idx < Len(pb_toc)
    /\ LET parts == pb_toc[pb_idx + 1]
       IN  /\ StartsWithChapter(parts)
           /\ Len(parts) >= MinChapterParts
           /\ IsIntLiteral(parts[3])
           /\ pb_chapters' = Append(pb_chapters, [name |-> parts[2], page |-> IntOf(parts[3])])
    /\ pb_idx' = pb_idx + 1
    /\ UNCHANGED <<pb_toc, pb_raised, notParse>>

\* A line that fails one of the two ifs: nothing happens.
PbIgnoreLine ==
    /\ ~pb_raised
    /\ pb_idx < Len(pb_toc)
    /\ LET parts == pb_toc[pb_idx + 1]
       IN  ~(StartsWithChapter(parts) /\ Len(parts) >= MinChapterParts)
    /\ pb_idx' = pb_idx + 1
    /\ UNCHANGED <<pb_toc, pb_chapters, pb_raised, notParse>>

\* A line that passes both ifs and whose third field int() rejects: ValueError
\* leaves parse_book_chapters, no list is returned.
PbIntRaises ==
    /\ ~pb_raised
    /\ pb_idx < Len(pb_toc)
    /\ LET parts == pb_toc[pb_idx + 1]
       IN  /\ StartsWithChapter(parts)
           /\ Len(parts) >= MinChapterParts
           /\ ~IsIntLiteral(parts[3])
    /\ pb_raised' = TRUE
    /\ UNCHANGED <<pb_toc, pb_idx, pb_chapters, notParse>>

\* parse_book_chapters has returned its list.
PbDone == ~pb_raised /\ pb_idx = Len(pb_toc)

-----------------------------------------------------------------------------
(* Chapter body builder: format_chapter_content (build.py).                *)
(* The formatted content is modelled by the list of parts that "\n".join   *)
(* receives; a page-range label by its page numbers and the hyphen.        *)

MaxFormatPages == 2

\* The page records a chapter may hold: with content or without, with a
\* paragraph number (the even pages) or without.
FormatPageRecords ==
    {[page |-> p, content |-> c, paranum |-> IF p % 2 = 0 THEN <<p>> ELSE <<>>] :
        p \in 1..MaxPage, c \in {<<>>, OpenA \o <<"k", "|">> \o CloseA}}

\* The records of pages first..last, all with content.
PageRun(first, last) ==
    [n \in 1..(last - first + 1) |->
        [page |-> first + n - 1, content |-> <<"k">>, paranum |-> <<>>]]

\* The parts appended for one page: separator comment, content or placeholder, spacing.
PageParts(page, script_code) ==
    << <<"page_marker", page.page>>,
       IF page.content # <<>> THEN convert_html_content(page.content, script_code, FALSE).out
       ELSE <<"empty_page_placeholder">>,
       <<>> >>

RECURSIVE ContentParts(_, _, _)
ContentParts(pages, n, script_code) ==
    IF n = 0 THEN <<>>
    ELSE ContentParts(pages, n - 1, script_code) \o PageParts(pages[n], script_code)

\* Variant of PageRangeLabel that always writes first-last (sensitivity check
\* of the single-page label).
PageRangeLabelAlwaysRange(first_page, last_page) == <<first_page, "-", last_page>>

\* f"{first_page}-{last_page}" if first_page != last_page else str(first_page)
PageRangeLabel(first_page, last_page) ==
    IF first_page # last_page THEN <<first_page, "-", last_page>> ELSE <<first_page>>

\* format_chapter_content(pages, chapter_name, script_code)
format_chapter_content(pages, script_code) ==
    IF pages = <<>>
    THEN [content |-> << <<"no_content">> >>, paranum_list |-> <<>>, page_range |-> <<"N/A">>]
    ELSE [content |-> ContentParts(pages, Len(pages), script_code),
          paranum_list |-> [k \in 1..Len(SelectSeq([n \in 1..Len(pages) |-> pages[n].paranum],
                                                   LAMBDA x : x # <<>>)) |->
                              SelectSeq([n \in 1..Len(pages) |-> pages[n].paranum],
                                        LAMBDA x : x # <<>>)[k]],
          page_range |-> PageRangeLabel(pages[1].page, pages[Len(pages)].page)]

FmtIdle ==
    /\ fc_pages = <<>>
    /\ fc_script = "mymr"
    /\ fc_done = FALSE
    /\ fc_result = <<>>

FmtInit ==
    /\ fc_pages \in SeqsUpTo(FormatPageRecords, MaxFormatPages)
                        \cup {PageRun(10, 10), PageRun(10, 15)}
    /\ fc_script \in {"mymr", "romn"}
    /\ fc_done = FALSE
    /\ fc_result = <<>>

\* A call of format_chapter_content(fc_pages, chapter_name, fc_script).
FcFormat ==
    /\ ~fc_done
    /\ fc_result' = format_chapter_content(fc_pages, fc_script)
    /\ fc_done' = TRUE
    /\ UNCHANGED <<fc_pages, fc_script, notFmt>>

-----------------------------------------------------------------------------
(* Two passes of process_mula_books' inner loop body running concurrently  *)
(* (build_tree.py): each determines its book path and runs                 *)
(* create_hierarchical_files on the shared output tree.  A directory is    *)
(* the sequence of its names below src_dir.  The steps of a pass are the   *)
(* file system calls: mkdir of the book path, mkdir of a path part's       *)
(* directory, index_file.exists(), and open/write of index.md.             *)

sutta_subdivisions == {"di", "ma", "sa", "an", "ku"}

\* The books table: the primary key is id; category and abbr are plain text columns.
ConcBooks ==
    [b1 |-> [category |-> "vi", abbr |-> <<"k">>, tocs |-> MkTocs(<<"chapter", "title">>)],
     b2 |-> [category |-> "vi", abbr |-> <<"k">>, tocs |-> MkTocs(<<"other", "chapter", "chapter">>)],
     b3 |-> [category |-> "di", abbr |-> <<"k">>, tocs |-> MkTocs(<<"other", "other", "chapter">>)],
     b4 |-> [category |-> "vi", abbr |-> <<"k", "|">>, tocs |-> MkTocs(<<"title", "chapter">>)]]

BookIds == DOMAIN ConcBooks

Passes == {1, 2}

\* determine_book_path(book, book_abbr, script_code), book_abbr as converted by
\* convert_book_content.
determine_book_path(book, script_code) ==
    <<script_code, "mula">>
        \o (IF book.category \in sutta_subdivisions THEN <<"su", book.category>>
            ELSE <<book.category>>)
        \o <<ConvertName(book.abbr, script_code, FALSE).out>>

\* The structure, book path and current directory of pass p.
PassStructure(p) == build_hierarchical_structure(ConcBooks[cc_pass[p].book].tocs)
PassBookPath(p) == determine_book_path(ConcBooks[cc_pass[p].book], cc_pass[p].script)
PassPathParts(p) == PassStructure(p)[cc_pass[p].i].path
PassDir(p) == PassBookPath(p) \o PartDir(PassPathParts(p), cc_pass[p].j)

\* The loop position after the current path part of pass p.
PassAdvance(p) ==
    IF cc_pass[p].j < Len(PassPathParts(p))
    THEN [cc_pass EXCEPT ![p].j = @ + 1, ![p].pc = "mkdir"]
    ELSE [cc_pass EXCEPT ![p].i = @ + 1, ![p].j = 1, ![p].pc = "mkdir"]

ConcIdle ==
    /\ cc_pass = <<>>
    /\ cc_dirs = {}
    /\ cc_index = <<>>
    /\ cc_wrote = <<>>

\* Two passes for different script codes or for different book ids.
ConcInit ==
    /\ cc_pass \in [Passes -> [script : {"mymr", "romn"}, book : BookIds,
                               i : {1}, j : {1}, pc : {"book_path"}]]
    /\ cc_pass[1].script # cc_pass[2].script \/ cc_pass[1].book # cc_pass[2].book
    /\ cc_dirs = {}
    /\ cc_index = <<>>
    /\ cc_wrote = <<>>

\* book_path.mkdir(parents=True, exist_ok=True)
CcMkdirBookPath(p) ==
    /\ cc_pass[p].pc = "book_path"
    /\ cc_dirs' = cc_dirs \cup {PassBookPath(p)}
    /\ cc_pass' = [cc_pass EXCEPT ![p].pc = "mkdir"]
    /\ UNCHANGED <<cc_index, cc_wrote, notConc>>

\* current_dir.mkdir(parents=True, exist_ok=True)
CcMkdir(p) ==
    /\ cc_pass[p].pc = "mkdir"
    /\ cc_pass[p].i <= Len(PassStructure(p))
    /\ cc_dirs' = cc_dirs \cup {PassDir(p)}
    /\ cc_pass' = [cc_pass EXCEPT ![p].pc = "exists"]
    /\ UNCHANGED <<cc_index, cc_wrote, notConc>>

\* index_file.exists() is true: the path part is done.
CcIndexExists(p) ==
    /\ cc_pass[p].pc = "exists"
    /\ IndexFileExists(cc_index, PassDir(p))
    /\ cc_pass' = PassAdvance(p)
    /\ UNCHANGED <<cc_dirs, cc_index, cc_wrote, notConc>>

\* index_file.exists() is false: the pass goes on to write the file.
CcIndexMissing(p) ==
    /\ cc_pass[p].pc = "exists"
    /\ ~IndexFileExists(cc_index, PassDir(p))
    /\ cc_pass' = [cc_pass EXCEPT ![p].pc = "write"]
    /\ UNCHANGED <<cc_dirs, cc_index, cc_wrote, notConc>>

\* open(index_file, 'w') and f.write(...): the file is created or replaced.
CcWriteIndex(p) ==
    /\ cc_pass[p].pc = "write"
    /\ cc_index' = [d \in DOMAIN cc_index \cup {PassDir(p)} |->
                       IF d = PassDir(p)
                       THEN IndexContent(PassPathParts(p), cc_pass[p].j, cc_pass[p].script)
                       ELSE cc_index[d]]
    /\ cc_wrote' = [d \in DOMAIN cc_wrote \cup {PassDir(p)} |->
                       IF d = PassDir(p)
                       THEN (IF d \in DOMAIN cc_wrote THEN cc_wrote[d] ELSE {}) \cup {p}
                       ELSE cc_wrote[d]]
    /\ cc_pass' = PassAdvance(p)
    /\ UNCHANGED <<cc_dirs, notConc>>

PassDone(p) == cc_pass[p].pc = "mkdir" /\ cc_pass[p].i > Len(PassStructure(p))

-----------------------------------------------------------------------------
(* Specifications: one per part of the builder.                            *)

InitToc == TocInit /\ FileIdle /\ ChapIdle /\ ConvIdle /\ CorrIdle /\ ParseIdle /\ FmtIdle /\ ConcIdle
TocNext == TocRecognized \/ TocSkipped
SpecToc == InitToc /\ [][TocNext]_vars

InitFiles == TocIdle /\ FileInit /\ ChapIdle /\ ConvIdle /\ CorrIdle /\ ParseIdle /\ FmtIdle /\ ConcIdle
FileNext ==
    \/ HfCreateIndex
    \/ HfKeepIndex
    \/ HfMkdirFails
    \/ HfOpenFails
    \/ HfWriteFails
    \/ HfRunAgain
    \/ HfRetry
SpecFiles == InitFiles /\ [][FileNext]_vars

InitChap == TocIdle /\ FileIdle /\ ChapInit /\ ConvIdle /\ CorrIdle /\ ParseIdle /\ FmtIdle /\ ConcIdle
ChapNext == ChProcessChapter \/ ChRunAgain
SpecChap == InitChap /\ [][ChapNext]_vars

InitConv == TocIdle /\ FileIdle /\ ChapIdle /\ ConvInit /\ CorrIdle /\ ParseIdle /\ FmtIdle /\ ConcIdle
ConvNext == CvConvertHtml \/ CvConvertName
SpecConv == InitConv /\ [][ConvNext]_vars

InitCorr == TocIdle /\ FileIdle /\ ChapIdle /\ ConvIdle /\ CorrInit /\ ParseIdle /\ FmtIdle /\ ConcIdle
CorrNext == AcApply
SpecCorr == InitCorr /\ [][CorrNext]_vars

InitParse == TocIdle /\ FileIdle /\ ChapIdle /\ ConvIdle /\ CorrIdle /\ ParseInit /\ FmtIdle
    /\ ConcIdle
ParseNext == PbAppendChapter \/ PbIgnoreLine \/ PbIntRaises
SpecParse == InitParse /\ [][ParseNext]_vars

InitFmt == TocIdle /\ FileIdle /\ ChapIdle /\ ConvIdle /\ CorrIdle /\ ParseIdle /\ FmtInit
    /\ ConcIdle
FmtNext == FcFormat
SpecFmt == InitFmt /\ [][FmtNext]_vars

InitConc == TocIdle /\ FileIdle /\ ChapIdle /\ ConvIdle /\ CorrIdle /\ ParseIdle /\ FmtIdle
    /\ ConcInit
ConcMkdirBookPath == \E p \in Passes : CcMkdirBookPath(p)
ConcMkdir == \E p \in Passes : CcMkdir(p)
ConcIndexExists == \E p \in Passes : CcIndexExists(p)
ConcIndexMissing == \E p \in Passes : CcIndexMissing(p)
ConcWriteIndex == \E p \in Passes : CcWriteIndex(p)
ConcNext ==
    \/ ConcMkdirBookPath
    \/ ConcMkdir
    \/ ConcIndexExists
    \/ ConcIndexMissing
    \/ ConcWriteIndex
SpecConc == InitConc /\ [][ConcNext]_vars

-----------------------------------------------------------------------------
(* Properties of the TOC hierarchy resolver (SpecToc).                     *)

\* Level of the k-th emitted item: the index of its entry's type in type_hierarchy.
ItemLevel(k) == TypeIndex(structure[k].toc.type)

\* The counters along the path of the k-th emitted item.
PathCounters(k) == [n \in 1..Len(structure[k].path) |-> structure[k].path[n].counter]

\* The types of the TOC entries handed in.
TocTypesIn == [k \in 1..Len(book_tocs) |-> book_tocs[k].type]

\* C1: every item emitted by build_hierarchical_structure has a path of length
\* level+1, for every TOC sequence (also one that begins below chapter level or
\* jumps more than one level deeper).
C1_PathLengthIsLevelPlusOne ==
    \A k \in 1..Len(structure) : Len(structure[k].path) = ItemLevel(k) + 1

\* C2: two emitted entries of the same type with only deeper entries between them
\* carry consecutive counters; the first entry of a type (at the start, or after
\* an entry of a shallower type) carries counter 1; the item's counter is the
\* counter of its last path segment; and [chapter, title, title, chapter]
\* yields the counter paths [1], [1,1], [1,2], [2].
C2_CounterRule ==
    /\ \A j \in 1..Len(structure) :
          /\ structure[j].path[Len(structure[j].path)].counter = structure[j].counter
          /\ \A i \in 1..(j - 1) :
                (/\ ItemLevel(i) = ItemLevel(j)
                 /\ \A m \in (i + 1)..(j - 1) : ItemLevel(m) > ItemLevel(j))
                    => structure[j].counter = structure[i].counter + 1
          /\ (\/ \A i \in 1..(j - 1) : ItemLevel(i) # ItemLevel(j)
              \/ \E m \in 1..(j - 1) :
                    /\ ItemLevel(m) < ItemLevel(j)
                    /\ \A i \in (m + 1)..(j - 1) : ItemLevel(i) # ItemLevel(j))
                => structure[j].counter = 1
    /\ (TocDone /\ TocTypesIn = <<"chapter", "title", "title", "chapter">>)
          => [k \in 1..Len(structure) |-> PathCounters(k)]
                = << <<1>>, <<1, 1>>, <<1, 2>>, <<2>> >>

\* The run over [chapter, title, title, chapter] has ended: the second title
\* and the second chapter each carry the counter after their predecessor's.
C2_Witness ==
    /\ TocDone
    /\ TocTypesIn = <<"chapter", "title", "title", "chapter">>
    /\ Len(structure) = 4
    /\ structure[3].counter = 2
    /\ structure[4].counter = 2

\* The entry's type is one of the five recognized types.
IsRecognized(toc) == toc.type \in HierarchyTypes

\* The entries consumed so far, and those of them with a recognized type.
TocsConsumed == SubSeq(book_tocs, 1, toc_idx)
RecognizedConsumed == SelectSeq(TocsConsumed, IsRecognized)

\* C11: an entry of an unrecognized type emits nothing and leaves the counters
\* and the running path unchanged: the loop's state after any number of entries
\* is its state after the recognized ones among them alone, and the emitted
\* items are the recognized entries in input order.
C11_UnrecognizedSkipped ==
    /\ structure = build_hierarchical_structure(RecognizedConsumed)
    /\ [k \in 1..Len(structure) |-> structure[k].toc] = RecognizedConsumed
    /\ level_counters = BuildState(RecognizedConsumed, Len(RecognizedConsumed)).counters
    /\ current_path = BuildState(RecognizedConsumed, Len(RecognizedConsumed)).path

\* The run over [chapter, title, other, title] has ended: three items, the
\* second title under the same chapter with the counter after the first's.
C11_Witness ==
    /\ TocDone
    /\ TocTypesIn = <<"chapter", "title", "other", "title">>
    /\ Len(structure) = 3
    /\ PathCounters(3) = <<1, 2>>

\* The path segment build_hierarchical_structure appends for emitted item k.
LastSegment(k) == structure[k].path[Len(structure[k].path)]

\* C19: the last segment of every emitted item's path is the entry itself; for
\* every item after the first, the path without its last segment is a prefix of
\* the path of the item emitted before it (same segments, same counters); and
\* two consecutively emitted entries of the same type differ in the counter of
\* their last segment.
C19_PathExtendsPrevious ==
    \A k \in 1..Len(structure) :
        /\ Len(structure[k].path) >= 1
        /\ LastSegment(k).type = structure[k].toc.type
        /\ LastSegment(k).name = structure[k].toc.name
        /\ LastSegment(k).page = structure[k].toc.page_number
        /\ LastSegment(k).counter = structure[k].counter
        /\ k > 1 =>
              /\ Len(structure[k].path) - 1 <= Len(structure[k - 1].path)
              /\ SubSeq(structure[k].path, 1, Len(structure[k].path) - 1)
                    = SubSeq(structure[k - 1].path, 1, Len(structure[k].path) - 1)
              /\ structure[k].toc.type = structure[k - 1].toc.type
                    => LastSegment(k).counter # LastSegment(k - 1).counter

\* chapter, title, subhead, title: the second title keeps the chapter segment of
\* the subhead's path and carries counter 2 after the first title's 1.
C19_Witness ==
    /\ TocDone
    /\ TocTypesIn = <<"chapter", "title", "subhead", "title">>
    /\ Len(structure) = 4
    /\ Len(structure[3].path) = 3
    /\ PathCounters(4) = <<1, 2>>
    /\ structure[4].path[1] = structure[3].path[1]

\* A TOC list is well formed when its first entry is a chapter and every later
\* entry is at most one level deeper than the entry before it.
WellFormedTocs(tocs) ==
    /\ tocs # <<>> => tocs[1].type = "chapter"
    /\ \A k \in 2..Len(tocs) : TypeIndex(tocs[k].type) <= TypeIndex(tocs[k - 1].type) + 1

\* C21: when the recognized entries consumed so far are well formed, every
\* emitted path has a segment of level i at each index i (0-based), each
\* segment's counter is the counter its level had when the item was emitted
\* (and the running path agrees with the current counters), and no two emitted
\* entries have the same sequence of counters.
C21_WellFormedPaths ==
    WellFormedTocs(RecognizedConsumed) =>
        /\ \A k \in 1..Len(structure) :
              /\ \A n \in 1..Len(structure[k].path) :
                    /\ structure[k].path[n].level = n - 1
                    /\ structure[k].path[n].counter
                          = BuildState(RecognizedConsumed, k).counters[structure[k].path[n].type]
              /\ \A l \in 1..Len(structure) : l # k => PathCounters(l) # PathCounters(k)
        /\ \A n \in 1..Len(current_path) :
              current_path[n].counter = level_counters[current_path[n].type]

\* chapter, title, subhead, chapter: a well-formed list descending to the third
\* level and returning to the first; the second chapter's path is its own
\* segment with counter 2.
C21_Witness ==
    /\ TocDone
    /\ TocTypesIn = <<"chapter", "title", "subhead", "chapter">>
    /\ WellFormedTocs(RecognizedConsumed)
    /\ PathCounters(3) = <<1, 1, 1>>
    /\ PathCounters(4) = <<2>>
    /\ level_counters["title"] = 0

-----------------------------------------------------------------------------
(* Properties of the hierarchical materializer (SpecFiles).                *)

\* C3: create_hierarchical_files never changes an index document that exists
\* when it reaches the directory: a step changes fs_index only by adding a
\* document to a directory that had none, a second run over the same structure
\* writes nothing (when no pass was aborted by an exception), and a pre-seeded
\* document keeps its content.
C3_ExistingIndexKept ==
    [][ /\ \A d \in DOMAIN fs_index : d \in DOMAIN fs_index' /\ fs_index'[d] = fs_index[d]
        /\ \A d \in hf_seeded : fs_index'[d] = SeedContent
        /\ (hf_run >= 2 /\ hf_aborts = <<>> /\ hf_error = NoError) => fs_index' = fs_index ]_vars

\* The second run has ended over a structure of three items that passes through a
\* pre-seeded directory, and that directory still holds the seeded document.
C3_Witness ==
    /\ hf_run = 2
    /\ HfDone
    /\ Len(hf_structure) = 3
    /\ hf_seeded = {<<1, 1>>}
    /\ \E k \in 1..Len(hf_structure) :
          PartDir(hf_structure[k].path, Len(hf_structure[k].path)) = <<1, 1>>
    /\ fs_index[<<1, 1>>] = SeedContent
    /\ <<1>> \in DOMAIN fs_index

\* C14: a failure to create a directory and a failure to write an index file
\* both abort the pass (nothing is materialized after it), and in both cases
\* the pass has printed diagnostics for the failing path (the target and that
\* the directory exists or not) before the exception leaves it.
C14_FailuresDiagnosed ==
    [][ /\ hf_error # NoError => (fs_dirs' = fs_dirs /\ fs_index' = fs_index)
        /\ hf_error' # NoError =>
              \E n \in DOMAIN hf_diag' : hf_diag'[n].target = hf_error'.dir ]_vars

\* The directory in which item k of the structure has its index document.
LeafDir(k) == PartDir(hf_structure[k].path, Len(hf_structure[k].path))

\* C17: after one pass without failure over an empty book directory every
\* emitted entry has a directory of its own (no two entries share the sequence
\* of counter-named directories), and the index document there carries the
\* entry's converted name as title and the entry's page.
C17_OwnDirectoryPerEntry ==
    (HfDone /\ hf_seeded = {} /\ hf_aborts = <<>>) =>
        \A k \in 1..Len(hf_structure) :
            /\ \A l \in 1..Len(hf_structure) : l # k => LeafDir(l) # LeafDir(k)
            /\ LeafDir(k) \in DOMAIN fs_index
            /\ fs_index[LeafDir(k)].name
                  = ConvertName(hf_structure[k].toc.name, hf_script, FALSE).out
            /\ fs_index[LeafDir(k)].page = hf_structure[k].toc.page_number

\* C20: when passes over an empty book directory were aborted by write failures
\* (open or write of an index file) and a later pass over the surviving tree
\* ran to its end, the tree equals the tree of a single pass without failure.
C20_RetryGivesCleanTree ==
    (/\ HfDone
     /\ hf_seeded = {}
     /\ hf_aborts # <<>>
     /\ \A n \in DOMAIN hf_aborts : hf_aborts[n].kind \in {"open", "write"}) =>
        fs_index = create_hierarchical_files(<<>>, hf_structure, hf_script)

-----------------------------------------------------------------------------
(* Properties of the chapter page ranges (SpecChap).                       *)

\* The chapters whose range [start, end) holds page p.
ChaptersHolding(p) == {i \in 1..Len(ch_ranges) : ch_ranges[i][1] <= p /\ p < ch_ranges[i][2]}

\* The chapter list is non-empty and its pages ascend strictly within the book.
ChaptersWellFormed ==
    /\ Len(chapters) > 0
    /\ \A i \in 1..Len(chapters) : chapters[i].page \in BookPages
    /\ \A i \in 1..(Len(chapters) - 1) : chapters[i].page < chapters[i + 1].page

\* C4: the chapter ranges partition the book's pages: once create_chapter_files
\* has gone through the chapter list, every page from the book's first to its
\* last page lies in exactly one chapter's range.  Stated for the chapter lists
\* most favourable to the claim (non-empty, strictly ascending, within the book).
C4_RangesPartitionPages ==
    (ChapDone /\ ChaptersWellFormed)
        => \A p \in BookPages : Cardinality(ChaptersHolding(p)) = 1

\* C5: chapter i is fetched with the range [chapters[i].page, chapters[i+1].page),
\* the last chapter with [page, book_lastpage + 1); the end of each range is the
\* start of the next; the pages fetched are the book's pages within the range, in
\* ascending order; chapters at [1, 50, 120] with last page 200 give
\* [1,50), [50,120), [120,201).
C5_ChapterRanges ==
    /\ \A i \in 1..Len(ch_ranges) :
          /\ ch_ranges[i][1] = chapters[i].page
          /\ i < Len(chapters) => ch_ranges[i][2] = chapters[i + 1].page
          /\ i = Len(chapters) => ch_ranges[i][2] = book_lastpage + 1
          /\ i < Len(ch_ranges) => ch_ranges[i][2] = ch_ranges[i + 1][1]
          /\ {ch_pages[i][n] : n \in 1..Len(ch_pages[i])}
                = {p \in BookPages : ch_ranges[i][1] <= p /\ p < ch_ranges[i][2]}
          /\ \A n \in 1..(Len(ch_pages[i]) - 1) : ch_pages[i][n] < ch_pages[i][n + 1]
    /\ (ChapDone /\ [k \in 1..Len(chapters) |-> chapters[k].page] = <<1, 50, 120>>
            /\ book_lastpage = 200)
          => ch_ranges = << <<1, 50>>, <<50, 120>>, <<120, 201>> >>

\* The three chapters of the example have been processed.
C5_Witness ==
    /\ ChapDone
    /\ book_lastpage = 200
    /\ ch_ranges = << <<1, 50>>, <<50, 120>>, <<120, 201>> >>
    /\ Len(ch_pages[3]) = 81

\* C15: a chapter index document or page document that exists is not
\* overwritten by create_chapter_files: every file keeps the content it has,
\* in particular through a second invocation for the same book path and script.
C15_ChapterFilesKept ==
    [][\A f \in DOMAIN ch_files : f \in DOMAIN ch_files' /\ ch_files'[f] = ch_files[f]]_vars

\* C16: every page fetched for a chapter has exactly one page document in the
\* chapter's directory, whose order is the page's 1-based position among the
\* fetched pages and whose body is convert_html_content of the page's content,
\* also when that content is empty.
C16_PageDocumentPerPage ==
    \A i \in 1..Len(ch_pages) : \A n \in 1..Len(ch_pages[i]) :
        /\ <<i, "page", ch_pages[i][n]>> \in DOMAIN ch_files
        /\ ch_files[<<i, "page", ch_pages[i][n]>>].order = n
        /\ ch_files[<<i, "page", ch_pages[i][n]>>].content
              = convert_html_content(PageRecord(ch_pages[i][n]).content, ch_script, ch_fails).out

-----------------------------------------------------------------------------
(* Properties of the script conversion pipeline (SpecConv).                *)

\* C6: convert_html_content returns its input unchanged and never calls the
\* transliteration function for script code 'mymr', and for any script code when
\* the input is empty.
C6_IdentityCases ==
    (cv_op = "html" /\ (cv_script = "mymr" \/ cv_input = <<>>))
        => (cv_result = cv_input /\ cv_calls = <<>>)

\* convert_html_content has run for 'mymr' on markup with text between tags.
C6_Witness ==
    /\ cv_op = "html"
    /\ cv_script = "mymr"
    /\ cv_input = OpenA \o <<"k", "|">> \o CloseA
    /\ cv_result = cv_input

\* TEXT of an input of the form <a>TEXT</a>.
InnerText(s) == SubSeq(s, Len(OpenA) + 1, Len(s) - Len(CloseA))

\* s is <a>TEXT</a> for a TEXT without "<".
IsWrapped(s) ==
    /\ Len(s) >= Len(OpenA) + Len(CloseA)
    /\ SubSeq(s, 1, Len(OpenA)) = OpenA
    /\ SubSeq(s, Len(s) - Len(CloseA) + 1, Len(s)) = CloseA
    /\ \A n \in 1..Len(InnerText(s)) : InnerText(s)[n] # "<"

\* TEXT transliterated (the original when the engine fails) and then corrected;
\* TEXT itself when it is empty or whitespace-only.
ConvertedText(text, script_code, fails) ==
    IF IsBlank(text) THEN text
    ELSE apply_text_corrections(
            IF fails THEN text
            ELSE TransliterateProcess(text, get_transliteration_config(script_code).to),
            get_transliteration_config(script_code).correction)

\* C7: for a non-native script code and TEXT without "<", convert_html_content
\* of <a>TEXT</a> is <a>T</a>, T being TEXT transliterated and then corrected
\* (TEXT itself when empty or whitespace-only); the tags are unchanged.
C7_WrappedText ==
    (cv_op = "html" /\ cv_script # "mymr" /\ IsWrapped(cv_input))
        => cv_result = OpenA \o ConvertedText(InnerText(cv_input), cv_script, cv_fails) \o CloseA

\* <a>k|</a> has been converted to Roman script: the letter is transliterated and
\* the doubled full stop of the section mark is corrected.
C7_Witness ==
    /\ cv_op = "html"
    /\ cv_script = "romn"
    /\ ~cv_fails
    /\ cv_input = OpenA \o <<"k", "|">> \o CloseA
    /\ cv_result = OpenA \o <<"r", ".">> \o CloseA

\* Position i of s lies in a text run the pattern matches: a run of characters
\* other than "<" that starts at the beginning of s or right after a ">", and
\* that is followed by a "<" or (when it starts after a ">") reaches the end.
InTextRun(s, i) ==
    /\ s[i] # "<"
    /\ \E q \in 1..i :
          /\ \A m \in q..i : s[m] # "<"
          /\ q = 1 \/ s[q - 1] = ">"
          /\ q > 1 \/ \E m \in (i + 1)..Len(s) : s[m] = "<"

\* The text run around position i is whitespace-only.
RunIsBlank(s, i) ==
    \A m \in 1..Len(s) :
        (\A n \in (IF m < i THEN m ELSE i)..(IF m < i THEN i ELSE m) : InTextRun(s, n))
            => s[m] = " "

\* s with every text run that is not whitespace-only replaced by one "#".
RECURSIVE FrameFrom(_, _)
FrameFrom(s, i) ==
    IF i > Len(s) THEN <<>>
    ELSE (IF InTextRun(s, i) /\ ~RunIsBlank(s, i)
          THEN (IF i = 1 \/ ~InTextRun(s, i - 1) THEN <<"#">> ELSE <<>>)
          ELSE <<s[i]>>)
         \o FrameFrom(s, i + 1)

Frame(s) == FrameFrom(s, 1)

\* The tag-spans of s from position i on: for each "<" that has a ">" after it,
\* the substring from it to the first following ">".
RECURSIVE TagSpansFrom(_, _)
TagSpansFrom(s, i) ==
    IF i > Len(s) THEN <<>>
    ELSE (IF s[i] = "<" /\ \E j \in (i + 1)..Len(s) : s[j] = ">"
          THEN << SubSeq(s, i, CHOOSE j \in (i + 1)..Len(s) :
                                  s[j] = ">" /\ \A m \in (i + 1)..(j - 1) : s[m] # ">") >>
          ELSE <<>>)
         \o TagSpansFrom(s, i + 1)

TagSpans(s) == TagSpansFrom(s, 1)

\* C8: convert_html_content leaves every tag-span unchanged and in order, keeps
\* whitespace-only text verbatim, and changes characters only inside the text
\* runs (not whitespace-only) handed to the text conversion.
C8_TagsPreserved ==
    cv_op = "html"
        => (/\ TagSpans(cv_result) = TagSpans(cv_input)
            /\ Frame(cv_result) = Frame(cv_input))

\* "<k>k" has been converted to Roman script: the tag keeps its "k", the text
\* after it is transliterated.
C8_Witness ==
    /\ cv_op = "html"
    /\ cv_script = "romn"
    /\ ~cv_fails
    /\ cv_input = <<"<", "k", ">", "k">>
    /\ cv_result = <<"<", "k", ">", "r">>

\* C9: when the transliteration call fails for a text (a name or a text-span)
\* under a non-native script, the pipeline's result for it is the original text
\* unchanged.
C9_FailureKeepsOriginal ==
    (cv_op \in {"html", "name"} /\ cv_script # "mymr" /\ cv_fails /\ cv_calls # <<>>)
        => cv_result = cv_input

\* s holds neither "<" nor ">".
IsPlainText(s) == \A n \in 1..Len(s) : s[n] \notin {"<", ">"}

-----------------------------------------------------------------------------
(* Properties of apply_text_corrections (SpecCorr).                        *)

\* from_text occurs in s at position i.
OccursAt(s, from_text, i) ==
    /\ i + Len(from_text) - 1 <= Len(s)
    /\ SubSeq(s, i, i + Len(from_text) - 1) = from_text

\* Literal replacement of every non-overlapping occurrence, left to right:
\* the text up to the leftmost occurrence, the replacement, and the rest replaced.
RECURSIVE ReplaceAll(_, _, _)
ReplaceAll(s, from_text, to_text) ==
    IF \E i \in 1..Len(s) : OccursAt(s, from_text, i)
    THEN LET i == CHOOSE n \in 1..Len(s) :
                    OccursAt(s, from_text, n) /\ \A m \in 1..(n - 1) : ~OccursAt(s, from_text, m)
         IN  SubSeq(s, 1, i - 1) \o to_text
                \o ReplaceAll(SubSeq(s, i + Len(from_text), Len(s)), from_text, to_text)
    ELSE s

\* The fold of ReplaceAll over the rules, first rule first.
RECURSIVE FoldRules(_, _)
FoldRules(s, rules) ==
    IF rules = <<>> THEN s
    ELSE FoldRules(ReplaceAll(s, Head(rules).from, Head(rules).to), Tail(rules))

\* C10: apply_text_corrections applies the rules in list order, each replacing
\* every non-overlapping occurrence of its 'from' in the output of the rule
\* before it: the result is the fold of whole-string literal replacement.
C10_CorrectionsFold ==
    ac_done => ac_result = FoldRules(ac_text, ac_corrections)

\* "...." under ('..' -> '.'), ('.' -> 'r.'): both occurrences of the first rule
\* are replaced, and the second rule works on the first rule's output.
C10_Witness ==
    /\ ac_done
    /\ ac_text = <<".", ".", ".", ".">>
    /\ ac_corrections = << [from |-> <<".", ".">>, to |-> <<".">>],
                           [from |-> <<".">>, to |-> <<"r", ".">>] >>
    /\ ac_result = <<"r", ".", "r", ".">>

\* The correction lists of self.transliteration_config.
ConfiguredCorrections ==
    {transliteration_config[i].correction : i \in 1..Len(transliteration_config)}

-----------------------------------------------------------------------------
(* Properties of parse_book_chapters (SpecParse).                          *)

\* A well-formed chapter line: chapter->NAME->PAGENUMBER.
IsChapterLine(parts) ==
    /\ Len(parts) >= 3
    /\ parts[1] = ChapterWord
    /\ IsIntLiteral(parts[3])

\* C12: parse_book_chapters never fails: a line that is not a well-formed
\* chapter line (also one with 'chapter->', three fields and a third field that
\* is no number) is skipped, and the list returned holds exactly the well-formed
\* chapter lines in input order.
C12_MalformedLinesSkipped ==
    /\ ~pb_raised
    /\ pb_chapters
          = [k \in 1..Len(SelectSeq(SubSeq(pb_toc, 1, pb_idx), IsChapterLine)) |->
                [name |-> SelectSeq(SubSeq(pb_toc, 1, pb_idx), IsChapterLine)[k][2],
                 page |-> IntOf(SelectSeq(SubSeq(pb_toc, 1, pb_idx), IsChapterLine)[k][3])]]

-----------------------------------------------------------------------------
(* Properties of format_chapter_content (SpecFmt).                         *)

\* The page numbers of the records handed in.
FmtPageNumbers == [n \in 1..Len(fc_pages) |-> fc_pages[n].page]

\* C13: for an empty page list format_chapter_content returns the fixed
\* no-content body, an empty paragraph-number list and the label 'N/A';
\* otherwise the label is the single page number when the first and the last
\* page of the list have the same number and '<first>-<last>' when they differ
\* (page 10 only gives '10', pages 10 to 15 give '10-15').
C13_PageRangeLabel ==
    fc_done =>
        /\ fc_pages = <<>> =>
              fc_result = [content |-> << <<"no_content">> >>, paranum_list |-> <<>>,
                           page_range |-> <<"N/A">>]
        /\ (fc_pages # <<>> /\ fc_pages[1].page = fc_pages[Len(fc_pages)].page) =>
              fc_result.page_range = <<fc_pages[1].page>>
        /\ (fc_pages # <<>> /\ fc_pages[1].page # fc_pages[Len(fc_pages)].page) =>
              fc_result.page_range = <<fc_pages[1].page, "-", fc_pages[Len(fc_pages)].page>>
        /\ FmtPageNumbers = <<10>> => fc_result.page_range = <<10>>
        /\ FmtPageNumbers = <<10, 11, 12, 13, 14, 15>> => fc_result.page_range = <<10, "-", 15>>

\* The chapter over pages 10 to 15 has been formatted and labelled '10-15'.
C13_Witness ==
    /\ fc_done
    /\ FmtPageNumbers = <<10, 11, 12, 13, 14, 15>>
    /\ fc_result.page_range = <<10, "-", 15>>

\* The chapter over page 10 alone has been formatted and labelled '10'.
C13_WitnessSinglePage ==
    /\ fc_done
    /\ FmtPageNumbers = <<10>>
    /\ fc_result.page_range = <<10>>

-----------------------------------------------------------------------------
(* Properties of concurrent passes (SpecConc).                             *)

\* The index documents at and below the book path of pass p, by directory
\* relative to the book path.
PassSubtree(p) ==
    LET bp == PassBookPath(p)
        below == {d \in DOMAIN cc_index : Len(d) >= Len(bp) /\ SubSeq(d, 1, Len(bp)) = bp}
    IN  [x \in {SubSeq(d, Len(bp) + 1, Len(d)) : d \in below} |-> cc_index[bp \o x]]

\* C18: two concurrent passes for different script codes, or for the same
\* script code and different book ids, never write the same file, and when
\* both have ended each pass's subtree is the one it produces running alone.
C18_ConcurrentPassesDisjoint ==
    /\ \A d \in DOMAIN cc_wrote : Cardinality(cc_wrote[d]) <= 1
    /\ (\A p \in Passes : PassDone(p)) =>
          \A p \in Passes :
              PassSubtree(p) = create_hierarchical_files(<<>>, PassStructure(p), cc_pass[p].script)

====
